---- MODULE Spec2Model ----
(***************************************************************************)
(* Model of the device / queue / swap-chain negotiation performed by       *)
(* HelloTriangleApplication::initVulkan (src/main.cpp): pickPhysicalDevice, *)
(* isDeviceSuitable, createLogicalDevice, createSwapChain and the three    *)
(* chooseSwap* helpers.  The platform's reports (enumerated devices, queue  *)
(* families, surface support, surface capabilities, formats, present modes, *)
(* framebuffer size) are the inputs; they are drawn in Init.                *)
(***************************************************************************)
EXTENDS Integers, Sequences, FiniteSets, TLC

VARIABLES
  devices,              \* instance.enumeratePhysicalDevices(), with each device's reports
  surfaceCapabilities,  \* physicalDevice.getSurfaceCapabilitiesKHR(surface)
  surfaceFormats,       \* physicalDevice.getSurfaceFormatsKHR(surface)
  surfacePresentModes,  \* physicalDevice.getSurfacePresentModesKHR(surface)
  framebufferSize,      \* glfwGetFramebufferSize(window, &width, &height)
  pc,                   \* the step of initVulkan that runs next
  error,                \* what() of the exception that ended run(), "" if none
  reported,             \* the values isDeviceSuitable returned, in call order
  physicalDevice,       \* member physicalDevice: index into devices, 0 = nullptr
  graphicsIndex,        \* createLogicalDevice's local graphicsIndex (-1: not yet set)
  presentIndex,         \* createLogicalDevice's local presentIndex (-1: not yet set)
  device,               \* member device
  graphicsQueue,        \* member graphicsQueue
  presentQueue,         \* member presentQueue
  swapChain             \* member swapChain with the create info it was built from

vars == << devices, surfaceCapabilities, surfaceFormats, surfacePresentModes,
           framebufferSize, pc, error, reported, physicalDevice, graphicsIndex,
           presentIndex, device, graphicsQueue, presentQueue, swapChain >>

-----------------------------------------------------------------------------
(* Bounds of the enumerated inputs *)

MaxDevices == 3
MaxFamilies == 3
MaxImages == 5
MaxFormats == 3
MaxModes == 2

-----------------------------------------------------------------------------
(* Program constants *)

\* VK_MAKE_API_VERSION(variant, major, minor, patch): bit fields 29 / 22 / 12 / 0
VK_MAKE_API_VERSION(variant, major, minor, patch) ==
  variant * 536870912 + major * 4194304 + minor * 4096 + patch

VK_API_VERSION_1_2 == VK_MAKE_API_VERSION(0, 1, 2, 0)
VK_API_VERSION_1_3 == VK_MAKE_API_VERSION(0, 1, 3, 0)
VK_API_VERSION_1_4 == VK_MAKE_API_VERSION(0, 1, 4, 0)

requiredDeviceExtensions ==
  << "VK_KHR_swapchain", "VK_KHR_spirv_1_4",
     "VK_KHR_synchronization2", "VK_KHR_create_renderpass2" >>

\* the features the feature chain of createLogicalDevice enables and
\* isDeviceSuitable queries
requiredFeatures ==
  { "shaderDrawParameters", "dynamicRendering", "extendedDynamicState" }

\* std::numeric_limits<uint32_t>::max().  TLC's integers are 32-bit signed, so
\* the largest value of the modelled extent type is TLC's largest integer; the
\* code only compares it for equality and orders extents, which this preserves.
UINT32_MAX == 2147483647

\* the preferred image count of createSwapChain: std::max(3u, ...)
PreferredImageCount == 3

\* what() of the exceptions the code throws
NoDevicesFound == "failed to find GPUs with Vulkan support!"
NoSuitableDevice == "failed to find a suitable GPU!"
NoQueueFamilyAvailable ==
  "Could not find a queue for graphics or present -> terminating"
\* vk::raii::Device's constructor throws vk::FeatureNotPresentError when the
\* create info enables a feature the physical device does not support
ErrorFeatureNotPresent == "vk::Device::createDevice: ErrorFeatureNotPresent"

\* nullptr-initialised members
NullPhysicalDevice == 0
NullDevice == [ valid |-> FALSE, physicalDevice |-> 0, queueFamilyIndices |-> {} ]
NullQueue == [ handle |-> "null", queueFamilyIndex |-> -1, queueIndex |-> 0 ]
NullSwapChain ==
  [ valid |-> FALSE, minImageCount |-> 0,
    imageFormat |-> "eUndefined", imageColorSpace |-> "eUndefined",
    imageExtent |-> [ width |-> 0, height |-> 0 ], presentMode |-> "eUndefined" ]

-----------------------------------------------------------------------------
(* Helpers *)

std_max(a, b) == IF a < b THEN b ELSE a

\* std::clamp(v, lo, hi); its precondition is lo <= hi
std_clamp(v, lo, hi) == IF v < lo THEN lo ELSE IF hi < v THEN hi ELSE v

SeqsUpTo(S, n) == UNION { [ 1..k -> S ] : k \in 0..n }

-----------------------------------------------------------------------------
(* isDeviceSuitable and pickPhysicalDevice *)

\* std::ranges::find_if over the queue families for the eGraphics flag, as a
\* 0-based index; Len(queueFamilies) is end()
RECURSIVE find_if_graphics(_, _)
find_if_graphics(queueFamilies, i) ==
  IF i >= Len(queueFamilies) THEN Len(queueFamilies)
  ELSE IF "eGraphics" \in queueFamilies[i + 1] THEN i
  ELSE find_if_graphics(queueFamilies, i + 1)

\* the loop over requiredDeviceExtensions: found = found && extensionIter != end
RECURSIVE extensionsFound(_, _, _)
extensionsFound(extensions, k, found) ==
  IF k > Len(requiredDeviceExtensions) THEN found
  ELSE extensionsFound(extensions, k + 1,
                       found /\ requiredDeviceExtensions[k] \in extensions)

isDeviceSuitable(dev) ==
  LET queueFamilies == dev.queueFamilies
      isSuitable0 == dev.apiVersion >= VK_API_VERSION_1_3
      qfpIter == find_if_graphics(queueFamilies, 0)
      isSuitable == isSuitable0 /\ (qfpIter # Len(queueFamilies))
      found == extensionsFound(dev.extensions, 1, TRUE)
      \* computed on line 217 and not part of the returned value
      supportsRequiredFeatures ==
        /\ "shaderDrawParameters" \in dev.features
        /\ "dynamicRendering" \in dev.features
        /\ "extendedDynamicState" \in dev.features
  IN  isSuitable /\ found

\* std::ranges::find_if(devices, isDeviceSuitable), as a 1-based index;
\* Len(devs) + 1 is devices.end()
RECURSIVE find_if_isDeviceSuitable(_, _)
find_if_isDeviceSuitable(devs, i) ==
  IF i > Len(devs) THEN Len(devs) + 1
  ELSE IF isDeviceSuitable(devs[i]) THEN i
  ELSE find_if_isDeviceSuitable(devs, i + 1)

\* a mutant of devIter: the last suitable device instead of the first
RECURSIVE find_last_isDeviceSuitable(_, _)
find_last_isDeviceSuitable(devs, i) ==
  IF i < 1 THEN Len(devs) + 1
  ELSE IF isDeviceSuitable(devs[i]) THEN i
  ELSE find_last_isDeviceSuitable(devs, i - 1)

devIter_last(devs) == find_last_isDeviceSuitable(devs, Len(devs))

devIter(devs) == find_if_isDeviceSuitable(devs, 1)

pickPhysicalDevice ==
  /\ pc = "pickPhysicalDevice"
  /\ IF devices = << >>
     THEN /\ error' = NoDevicesFound
          /\ pc' = "terminated"
          /\ UNCHANGED << reported, physicalDevice >>
     ELSE LET it == devIter(devices)
              calls == IF it > Len(devices) THEN Len(devices) ELSE it
          IN  /\ reported' = [ i \in 1..calls |-> isDeviceSuitable(devices[i]) ]
              /\ IF it = Len(devices) + 1
                 THEN /\ error' = NoSuitableDevice
                      /\ pc' = "terminated"
                      /\ UNCHANGED physicalDevice
                 ELSE /\ physicalDevice' = it
                      /\ pc' = "createLogicalDevice"
                      /\ UNCHANGED error
  /\ UNCHANGED << devices, surfaceCapabilities, surfaceFormats,
                  surfacePresentModes, framebufferSize, graphicsIndex,
                  presentIndex, device, graphicsQueue, presentQueue, swapChain >>

-----------------------------------------------------------------------------
(* createLogicalDevice *)

\* physicalDevice.getSurfaceSupportKHR(i, *surface); a family index that is
\* not one of the device's is invalid usage and the answer is whatever the
\* driver produces (outOfRange)
getSurfaceSupportKHR(dev, i, outOfRange) ==
  IF i < Len(dev.surfaceSupport) THEN dev.surfaceSupport[i + 1] ELSE outOfRange

\* a mutant of sharedFamilyScan: the scan forgets the graphics flag
RECURSIVE sharedFamilyScan_anyPresent(_, _)
sharedFamilyScan_anyPresent(dev, i) ==
  IF i >= Len(dev.queueFamilies) THEN Len(dev.queueFamilies)
  ELSE IF getSurfaceSupportKHR(dev, i, FALSE) THEN i
  ELSE sharedFamilyScan_anyPresent(dev, i + 1)

\* lines 235-241: the first family that has eGraphics and can present;
\* Len(queueFamilies) when the loop ends without a break
RECURSIVE sharedFamilyScan(_, _)
sharedFamilyScan(dev, i) ==
  IF i >= Len(dev.queueFamilies) THEN Len(dev.queueFamilies)
  ELSE IF "eGraphics" \in dev.queueFamilies[i + 1]
          /\ getSurfaceSupportKHR(dev, i, FALSE) THEN i
  ELSE sharedFamilyScan(dev, i + 1)

\* a mutant of presentFamilyScan: the scan starts after family 0
RECURSIVE presentFamilyScan_skipFirst(_, _)
presentFamilyScan_skipFirst(dev, i) ==
  IF i + 1 >= Len(dev.queueFamilies) THEN Len(dev.queueFamilies)
  ELSE IF getSurfaceSupportKHR(dev, i + 1, FALSE) THEN i + 1
  ELSE presentFamilyScan_skipFirst(dev, i + 1)

\* lines 245-250: the first family that can present
RECURSIVE presentFamilyScan(_, _)
presentFamilyScan(dev, i) ==
  IF i >= Len(dev.queueFamilies) THEN Len(dev.queueFamilies)
  ELSE IF getSurfaceSupportKHR(dev, i, FALSE) THEN i
  ELSE presentFamilyScan(dev, i + 1)

\* lines 224-252: the values of graphicsIndex and presentIndex at line 254
resolveQueues(dev, outOfRange) ==
  LET size == Len(dev.queueFamilies)
      graphics1 == find_if_graphics(dev.queueFamilies, 0)
      present1 == IF getSurfaceSupportKHR(dev, graphics1, outOfRange)
                  THEN graphics1 ELSE size
  IN  IF present1 = size
      THEN LET shared == sharedFamilyScan(dev, 0)
           IN  IF shared # size
               THEN [ graphicsIndex |-> shared, presentIndex |-> shared ]
               ELSE [ graphicsIndex |-> graphics1,
                      presentIndex |-> presentFamilyScan(dev, 0) ]
      ELSE [ graphicsIndex |-> graphics1, presentIndex |-> present1 ]

\* a mutant of queuesUnresolved: only the graphics role is tested
queuesUnresolved_graphicsOnly(g, p, size) == g = size

\* the condition of line 254
queuesUnresolved(g, p, size) == (g = size) \/ (p = size)

\* the families deviceCreateInfo requests a queue for: queueCreateInfoCount 1,
\* pQueueCreateInfos one info with queueFamilyIndex = graphicsIndex
queueCreateInfos(g, p) == { g }

\* vk::raii::Queue(device, family, 0): the queue of a requested family; for a
\* family no queue was requested for the call is invalid usage and the handle
\* is whatever the driver produces (stray)
getQueue(dev, family, stray) ==
  [ handle |-> IF family \in dev.queueFamilyIndices THEN "valid" ELSE stray,
    queueFamilyIndex |-> family, queueIndex |-> 0 ]

createLogicalDevice ==
  /\ pc = "createLogicalDevice"
  /\ \E outOfRange \in BOOLEAN, stray \in { "null", "dangling" } :
       LET dev == devices[physicalDevice]
           q == resolveQueues(dev, outOfRange)
           created == [ valid |-> TRUE, physicalDevice |-> physicalDevice,
                        queueFamilyIndices |->
                          queueCreateInfos(q.graphicsIndex, q.presentIndex) ]
       IN  /\ graphicsIndex' = q.graphicsIndex
           /\ presentIndex' = q.presentIndex
           /\ IF queuesUnresolved(q.graphicsIndex, q.presentIndex,
                                  Len(dev.queueFamilies))
              THEN /\ error' = NoQueueFamilyAvailable
                   /\ pc' = "terminated"
                   /\ UNCHANGED << device, graphicsQueue, presentQueue >>
              ELSE IF ~ (requiredFeatures \subseteq dev.features)
              THEN /\ error' = ErrorFeatureNotPresent
                   /\ pc' = "terminated"
                   /\ UNCHANGED << device, graphicsQueue, presentQueue >>
              ELSE /\ device' = created
                   /\ graphicsQueue' = getQueue(created, q.graphicsIndex, stray)
                   /\ presentQueue' = getQueue(created, q.presentIndex, stray)
                   /\ pc' = "createSwapChain"
                   /\ UNCHANGED error
  /\ UNCHANGED << devices, surfaceCapabilities, surfaceFormats,
                  surfacePresentModes, framebufferSize, reported,
                  physicalDevice, swapChain >>

-----------------------------------------------------------------------------
(* createSwapChain and the chooseSwap* helpers *)

PreferredSurfaceFormat ==
  [ format |-> "eB8G8R8A8Srgb", colorSpace |-> "eSrgbNonlinear" ]

\* the outcome of reading availableFormats[0] of an empty vector when the
\* read faults
SegFault == [ format |-> "SIGSEGV", colorSpace |-> "SIGSEGV" ]

\* the range-for of chooseSwapSurfaceFormat: the index of the first entry that
\* has the preferred format and the preferred color space, 0 when none has
RECURSIVE preferredFormatAt(_, _)
preferredFormatAt(availableFormats, i) ==
  IF i > Len(availableFormats) THEN 0
  ELSE IF availableFormats[i].format = "eB8G8R8A8Srgb"
          /\ availableFormats[i].colorSpace = "eSrgbNonlinear" THEN i
  ELSE preferredFormatAt(availableFormats, i + 1)

\* a mutant of chooseSwapSurfaceFormat: only the format is compared
RECURSIVE formatOnlyAt(_, _)
formatOnlyAt(availableFormats, i) ==
  IF i > Len(availableFormats) THEN 0
  ELSE IF availableFormats[i].format = "eB8G8R8A8Srgb" THEN i
  ELSE formatOnlyAt(availableFormats, i + 1)

chooseSwapSurfaceFormat_formatOnly(availableFormats, outOfBounds) ==
  LET at == formatOnlyAt(availableFormats, 1)
  IN  IF at # 0 THEN availableFormats[at]
      ELSE IF Len(availableFormats) > 0 THEN availableFormats[1]
      ELSE outOfBounds

\* availableFormats[0] of an empty vector reads outside the vector: the value
\* is whatever that read produces (outOfBounds)
chooseSwapSurfaceFormat(availableFormats, outOfBounds) ==
  LET at == preferredFormatAt(availableFormats, 1)
  IN  IF at # 0 THEN availableFormats[at]
      ELSE IF Len(availableFormats) > 0 THEN availableFormats[1]
      ELSE outOfBounds

RECURSIVE hasMailbox(_, _)
hasMailbox(availablePresentModes, i) ==
  IF i > Len(availablePresentModes) THEN FALSE
  ELSE IF availablePresentModes[i] = "eMailbox" THEN TRUE
  ELSE hasMailbox(availablePresentModes, i + 1)

chooseSwapPresentMode(availablePresentModes) ==
  IF hasMailbox(availablePresentModes, 1) THEN "eMailbox" ELSE "eFifo"

\* a mutant of chooseSwapExtent: the framebuffer size is returned unclamped
chooseSwapExtent_unclamped(capabilities, fb) ==
  IF capabilities.currentExtent.width # UINT32_MAX
  THEN capabilities.currentExtent
  ELSE [ width |-> fb.width, height |-> fb.height ]

\* fb is what glfwGetFramebufferSize stores into width and height
chooseSwapExtent(capabilities, fb) ==
  IF capabilities.currentExtent.width # UINT32_MAX
  THEN capabilities.currentExtent
  ELSE [ width |-> std_clamp(fb.width, capabilities.minImageExtent.width,
                             capabilities.maxImageExtent.width),
         height |-> std_clamp(fb.height, capabilities.minImageExtent.height,
                              capabilities.maxImageExtent.height) ]

\* a mutant of negotiateImageCount: maxImageCount = 0 is taken as a bound
negotiateImageCount_zeroBounds(capabilities) ==
  LET minImageCount == std_max(PreferredImageCount, capabilities.minImageCount)
  IN  IF minImageCount > capabilities.maxImageCount
      THEN capabilities.maxImageCount ELSE minImageCount

\* lines 288 and 292: the minImageCount of the create info
negotiateImageCount(capabilities) ==
  LET minImageCount == std_max(PreferredImageCount, capabilities.minImageCount)
  IN  IF capabilities.maxImageCount > 0
         /\ minImageCount > capabilities.maxImageCount
      THEN capabilities.maxImageCount ELSE minImageCount

SurfaceFormats ==
  [ format : { "eB8G8R8A8Srgb", "eB8G8R8A8Unorm" },
    colorSpace : { "eSrgbNonlinear", "eExtendedSrgbLinearEXT" } ]

createSwapChain ==
  /\ pc = "createSwapChain"
  /\ \E outOfBounds \in SurfaceFormats \cup { SegFault } :
       LET minImageCount == negotiateImageCount(surfaceCapabilities)
           surfaceFormat == chooseSwapSurfaceFormat(surfaceFormats, outOfBounds)
           extent == chooseSwapExtent(surfaceCapabilities, framebufferSize)
       IN  IF surfaceFormat = SegFault
           THEN /\ pc' = "crashed"
                /\ UNCHANGED swapChain
           ELSE /\ swapChain' =
                     [ valid |-> TRUE,
                       minImageCount |-> minImageCount,
                       imageFormat |-> surfaceFormat.format,
                       imageColorSpace |-> surfaceFormat.colorSpace,
                       imageExtent |-> extent,
                       presentMode |-> chooseSwapPresentMode(surfacePresentModes) ]
                /\ pc' = "createImageViews"
  /\ UNCHANGED << devices, surfaceCapabilities, surfaceFormats,
                  surfacePresentModes, framebufferSize, error, reported,
                  physicalDevice, graphicsIndex, presentIndex, device,
                  graphicsQueue, presentQueue >>

-----------------------------------------------------------------------------
(* The platform's reports: the inputs of initVulkan *)

WIDTH == 800
HEIGHT == 600

Range(s) == { s[i] : i \in DOMAIN s }

Extent(w, h) == [ width |-> w, height |-> h ]

\* a device that meets every requirement, with one family that does everything
GoodDevice ==
  [ apiVersion |-> VK_API_VERSION_1_3,
    queueFamilies |-> << { "eGraphics", "eCompute" } >>,
    surfaceSupport |-> << TRUE >>,
    extensions |-> Range(requiredDeviceExtensions),
    features |-> requiredFeatures ]

\* a surface of a fixed-size window
GoodCapabilities ==
  [ minImageCount |-> 2, maxImageCount |-> 0,
    currentExtent |-> Extent(WIDTH, HEIGHT),
    minImageExtent |-> Extent(1, 1),
    maxImageExtent |-> Extent(4096, 4096) ]

\* one device with any API version, extension set, feature set and families
WideDevices ==
  { [ apiVersion |-> v, queueFamilies |-> qf,
      surfaceSupport |-> [ i \in DOMAIN qf |-> TRUE ],
      extensions |-> ext, features |-> feat ] :
      v \in { VK_API_VERSION_1_2, VK_API_VERSION_1_3, VK_API_VERSION_1_4 },
      qf \in SeqsUpTo({ { "eGraphics" }, { "eCompute" } }, MaxFamilies),
      ext \in SUBSET Range(requiredDeviceExtensions),
      feat \in SUBSET requiredFeatures }

\* the devices the enumerated lists are made of: the good one and one that
\* fails each single requirement
PickDevices ==
  { GoodDevice,
    [ GoodDevice EXCEPT !.apiVersion = VK_API_VERSION_1_2 ],
    [ GoodDevice EXCEPT !.queueFamilies = << { "eCompute" } >> ],
    [ GoodDevice EXCEPT !.extensions = @ \ { "VK_KHR_synchronization2" } ],
    [ GoodDevice EXCEPT !.features = @ \ { "dynamicRendering" } ] }

\* the good device with any queue families and any surface support
FamilyDevices ==
  { [ GoodDevice EXCEPT !.queueFamilies = [ i \in DOMAIN fam |-> fam[i].flags ],
                        !.surfaceSupport = [ i \in DOMAIN fam |-> fam[i].present ] ] :
      fam \in SeqsUpTo([ flags : { { "eGraphics" }, { "eCompute" },
                                   { "eGraphics", "eCompute" } },
                         present : BOOLEAN ], MaxFamilies) }

ExtentValues == { 0, 50, 100, 480, 640, 1000, 2000 }

\* capability reports with minImageExtent <= maxImageExtent on each axis
ExtentCapabilities ==
  { [ GoodCapabilities EXCEPT !.currentExtent = Extent(cw, ch),
                              !.minImageExtent = Extent(lo, lo),
                              !.maxImageExtent = Extent(hw, hh) ] :
      cw \in { 640, 800, UINT32_MAX }, ch \in { 480, 600, UINT32_MAX },
      lo \in { 1, 100 }, hw \in { 100, 1000 }, hh \in { 100, 1000 } }

CountCapabilities ==
  { [ GoodCapabilities EXCEPT !.minImageCount = lo, !.maxImageCount = hi ] :
      lo \in 1..MaxImages, hi \in 0..MaxImages }

PresentModes == { "eFifo", "eMailbox", "eImmediate" }

InitProgram ==
  /\ pc = "pickPhysicalDevice"
  /\ error = ""
  /\ reported = << >>
  /\ physicalDevice = NullPhysicalDevice
  /\ graphicsIndex = -1
  /\ presentIndex = -1
  /\ device = NullDevice
  /\ graphicsQueue = NullQueue
  /\ presentQueue = NullQueue
  /\ swapChain = NullSwapChain

InitGoodSurface ==
  /\ surfaceCapabilities = GoodCapabilities
  /\ surfaceFormats = << PreferredSurfaceFormat >>
  /\ surfacePresentModes = << "eFifo" >>
  /\ framebufferSize = Extent(WIDTH, HEIGHT)

Init ==
  /\ InitProgram
  /\ \/ /\ devices \in { << d >> : d \in WideDevices }
        /\ InitGoodSurface
     \/ /\ devices \in SeqsUpTo(PickDevices, MaxDevices)
        /\ InitGoodSurface
     \/ /\ devices \in { << d >> : d \in FamilyDevices }
        /\ InitGoodSurface
     \/ /\ devices = << GoodDevice >>
        /\ surfaceCapabilities \in CountCapabilities
        /\ surfaceFormats = << PreferredSurfaceFormat >>
        /\ surfacePresentModes = << "eFifo" >>
        /\ framebufferSize = Extent(WIDTH, HEIGHT)
     \/ /\ devices = << GoodDevice >>
        /\ surfaceCapabilities \in ExtentCapabilities
        /\ surfaceFormats = << PreferredSurfaceFormat >>
        /\ surfacePresentModes = << "eFifo" >>
        /\ framebufferSize \in { Extent(w, h) : w \in ExtentValues, h \in ExtentValues }
     \/ /\ devices = << GoodDevice >>
        /\ surfaceCapabilities = GoodCapabilities
        /\ surfaceFormats \in SeqsUpTo(SurfaceFormats, MaxFormats)
        /\ surfacePresentModes \in SeqsUpTo(PresentModes, MaxModes)
        /\ framebufferSize = Extent(WIDTH, HEIGHT)

\* initVulkan: the three steps in program order; an exception ends run()
Next ==
  \/ pickPhysicalDevice
  \/ createLogicalDevice
  \/ createSwapChain

Spec == Init /\ [][Next]_vars

-----------------------------------------------------------------------------
(* Properties.  They are stated with quantifiers over the platform's       *)
(* reports, not with the operators that model the code's loops.            *)

Chosen == devices[physicalDevice]

\* createLogicalDevice has run to its end, by return or by exception
QueuesResolved == physicalDevice # NullPhysicalDevice /\ graphicsIndex # -1

FamilyIndices(dev) == 0..(Len(dev.queueFamilies) - 1)
GraphicsFamilies(dev) ==
  { i \in FamilyIndices(dev) : "eGraphics" \in dev.queueFamilies[i + 1] }
PresentFamilies(dev) ==
  { i \in FamilyIndices(dev) : dev.surfaceSupport[i + 1] }
SharedFamilies(dev) == GraphicsFamilies(dev) \cap PresentFamilies(dev)
Lowest(S) == CHOOSE m \in S : \A n \in S : m <= n

\* the four conditions of the suitability predicate
RequirementsMet(dev) ==
  /\ dev.apiVersion >= VK_API_VERSION_1_3
  /\ GraphicsFamilies(dev) # {}
  /\ \A k \in DOMAIN requiredDeviceExtensions :
       requiredDeviceExtensions[k] \in dev.extensions
  /\ \A f \in requiredFeatures : f \in dev.features

\* C1: isDeviceSuitable(device) returns true if and only if the API version
\* is at least 1.3, some queue family is graphics-capable, every required
\* extension is supported and every required feature is supported.
C1_SuitableIffRequirementsMet ==
  \A i \in DOMAIN reported : reported[i] <=> RequirementsMet(devices[i])

\* C2: pickPhysicalDevice commits to the first enumerated device for which
\* isDeviceSuitable holds; a non-empty list without one fails with
\* NoSuitableDevice and an empty list with NoDevicesFound, and both leave
\* physicalDevice null.
C2_FirstSuitablePicked ==
  pc # "pickPhysicalDevice" =>
    /\ devices = << >> =>
         error = NoDevicesFound /\ physicalDevice = NullPhysicalDevice
    /\ ( devices # << >>
         /\ \A i \in DOMAIN devices : ~ isDeviceSuitable(devices[i]) ) =>
         error = NoSuitableDevice /\ physicalDevice = NullPhysicalDevice
    /\ ( \E i \in DOMAIN devices : isDeviceSuitable(devices[i]) ) =>
         /\ physicalDevice \in DOMAIN devices
         /\ isDeviceSuitable(devices[physicalDevice])
         /\ \A j \in 1..(physicalDevice - 1) : ~ isDeviceSuitable(devices[j])
         /\ error \notin { NoDevicesFound, NoSuitableDevice }

\* the second of three devices was picked: the first is unsuitable and the
\* third is suitable too
C2_Witness ==
  /\ pc # "pickPhysicalDevice"
  /\ Len(devices) = 3
  /\ physicalDevice = 2
  /\ ~ isDeviceSuitable(devices[1])
  /\ isDeviceSuitable(devices[3])

\* C3: when the first graphics-capable family can present, graphicsIndex =
\* presentIndex = that family; otherwise, when some family is graphics-capable
\* and present-capable, graphicsIndex = presentIndex = the lowest such family.
C3_SharedFamilyUsed ==
  QueuesResolved =>
    /\ ( GraphicsFamilies(Chosen) # {}
         /\ Lowest(GraphicsFamilies(Chosen)) \in PresentFamilies(Chosen) ) =>
         /\ graphicsIndex = Lowest(GraphicsFamilies(Chosen))
         /\ presentIndex = graphicsIndex
    /\ ( GraphicsFamilies(Chosen) # {}
         /\ Lowest(GraphicsFamilies(Chosen)) \notin PresentFamilies(Chosen)
         /\ SharedFamilies(Chosen) # {} ) =>
         /\ graphicsIndex = Lowest(SharedFamilies(Chosen))
         /\ presentIndex = graphicsIndex

\* tier 2: the first graphics family cannot present, a lower non-graphics
\* family can, and the shared family is a later one
C3_Witness ==
  /\ QueuesResolved
  /\ Lowest(GraphicsFamilies(Chosen)) = 0
  /\ 0 \notin PresentFamilies(Chosen)
  /\ 1 \in PresentFamilies(Chosen) \ GraphicsFamilies(Chosen)
  /\ graphicsIndex = 2
  /\ presentIndex = 2
  /\ device.valid

\* C4: with no family both graphics- and present-capable, but a graphics
\* family and a present family, graphicsIndex is the first graphics family,
\* presentIndex the lowest present-capable family of all, and they differ.
C4_SeparateFamilies ==
  ( QueuesResolved
    /\ SharedFamilies(Chosen) = {}
    /\ GraphicsFamilies(Chosen) # {}
    /\ PresentFamilies(Chosen) # {} ) =>
    /\ graphicsIndex = Lowest(GraphicsFamilies(Chosen))
    /\ presentIndex = Lowest(PresentFamilies(Chosen))
    /\ graphicsIndex # presentIndex
    /\ error # NoQueueFamilyAvailable

\* families graphics-only, compute-only, present-only give graphics 0, present 2
C4_Witness ==
  /\ QueuesResolved
  /\ Len(Chosen.queueFamilies) = 3
  /\ GraphicsFamilies(Chosen) = { 0 }
  /\ PresentFamilies(Chosen) = { 2 }
  /\ graphicsIndex = 0
  /\ presentIndex = 2

\* C5: queue resolution fails with NoQueueFamilyAvailable exactly when the
\* device has no graphics-capable or no present-capable family, and then no
\* device or queue is created; otherwise both indices are below the family
\* count.  The chosen physical device stays the one pickPhysicalDevice chose.
C5_ResolutionOutcome ==
  QueuesResolved =>
    /\ ( error = NoQueueFamilyAvailable ) <=>
         ( GraphicsFamilies(Chosen) = {} \/ PresentFamilies(Chosen) = {} )
    /\ error = NoQueueFamilyAvailable =>
         /\ device = NullDevice
         /\ graphicsQueue = NullQueue
         /\ presentQueue = NullQueue
         /\ pc = "terminated"
    /\ error # NoQueueFamilyAvailable =>
         /\ graphicsIndex \in FamilyIndices(Chosen)
         /\ presentIndex \in FamilyIndices(Chosen)
    /\ physicalDevice \in DOMAIN devices
    /\ isDeviceSuitable(Chosen)
    /\ \A j \in 1..(physicalDevice - 1) : ~ isDeviceSuitable(devices[j])

\* the failure: a graphics family and no family that can present
C5_Witness ==
  /\ QueuesResolved
  /\ error = NoQueueFamilyAvailable
  /\ GraphicsFamilies(Chosen) # {}
  /\ PresentFamilies(Chosen) = {}
  /\ Len(Chosen.queueFamilies) = 3

\* C6: with minImageCount <= maxImageCount or maxImageCount = 0, the image
\* count is max(3, minImageCount), reduced to maxImageCount when that is
\* nonzero and smaller; it is never below minImageCount and never above a
\* nonzero maxImageCount.
C6_ImageCount ==
  ( swapChain.valid
    /\ ( surfaceCapabilities.minImageCount <= surfaceCapabilities.maxImageCount
         \/ surfaceCapabilities.maxImageCount = 0 ) ) =>
    LET lo == surfaceCapabilities.minImageCount
        hi == surfaceCapabilities.maxImageCount
        target == Lowest({ n \in { 3, lo } : n >= 3 /\ n >= lo })
    IN  /\ swapChain.minImageCount =
             IF hi # 0 /\ hi < target THEN hi ELSE target
        /\ swapChain.minImageCount >= lo
        /\ hi # 0 => swapChain.minImageCount <= hi

\* min = 2, max = 2 gives 2
C6_Witness ==
  /\ swapChain.valid
  /\ surfaceCapabilities.minImageCount = 2
  /\ surfaceCapabilities.maxImageCount = 2
  /\ swapChain.minImageCount = 2

\* v clamped into [lo, hi]
IsClamped(r, v, lo, hi) ==
  /\ lo <= r /\ r <= hi
  /\ (lo <= v /\ v <= hi) => r = v
  /\ v < lo => r = lo
  /\ v > hi => r = hi

FramebufferClamped ==
  /\ IsClamped(swapChain.imageExtent.width, framebufferSize.width,
               surfaceCapabilities.minImageExtent.width,
               surfaceCapabilities.maxImageExtent.width)
  /\ IsClamped(swapChain.imageExtent.height, framebufferSize.height,
               surfaceCapabilities.minImageExtent.height,
               surfaceCapabilities.maxImageExtent.height)

C8_FormatChoice ==
  ( swapChain.valid /\ surfaceFormats # << >> ) =>
    LET chosen == [ format |-> swapChain.imageFormat,
                    colorSpace |-> swapChain.imageColorSpace ]
    IN  IF \E i \in DOMAIN surfaceFormats : surfaceFormats[i] = PreferredSurfaceFormat
        THEN chosen = PreferredSurfaceFormat
        ELSE chosen = surfaceFormats[1]

\* the preferred pair is last, after an entry with the preferred format and
\* another color space
C8_Witness ==
  /\ swapChain.valid
  /\ Len(surfaceFormats) = 3
  /\ surfaceFormats[1].format = "eB8G8R8A8Srgb"
  /\ surfaceFormats[1].colorSpace # "eSrgbNonlinear"
  /\ surfaceFormats[2] # PreferredSurfaceFormat
  /\ surfaceFormats[3] = PreferredSurfaceFormat
  /\ swapChain.imageFormat = "eB8G8R8A8Srgb"
  /\ swapChain.imageColorSpace = "eSrgbNonlinear"

\* the error the negotiation is to fail with on an empty list
InvalidSurfaceState == "InvalidSurfaceState"

\* C9: createSwapChain fails with InvalidSurfaceState exactly when the format
\* list or the present-mode list is empty, and then no swap chain is created.
C9_EmptyListsFail ==
  pc \in { "createImageViews", "crashed" } =>
    /\ ( error = InvalidSurfaceState ) <=>
         ( surfaceFormats = << >> \/ surfacePresentModes = << >> )
    /\ ( surfaceFormats = << >> \/ surfacePresentModes = << >> ) =>
         ~ swapChain.valid

\* C10: after a successful createLogicalDevice, the family of every queue
\* obtained from the device is a family a queue was requested for when the
\* device was created.
C10_QueuesRequested ==
  device.valid =>
    /\ graphicsQueue.queueFamilyIndex \in device.queueFamilyIndices
    /\ presentQueue.queueFamilyIndex \in device.queueFamilyIndices

====
